---- MODULE Spec2Model ----
(***************************************************************************)
(* watch-dir (src/main.rs): a filesystem watcher task that aggregates the  *)
(* size and number of created files per parent folder in a mutex-guarded   *)
(* HashMap, and a terminal render loop that draws the table sorted by      *)
(* size, polls for the quit key and drains a bounded tokio mpsc channel    *)
(* of "changed" signals sent by the watcher.                               *)
(*                                                                         *)
(* A u64 value v is the record [hi |-> h, lo |-> l] with v = h*2^63 + l    *)
(* and l < 2^63.  File sizes are drawn from FileSizes, whose lo parts are  *)
(* so small that lo never carries into hi within the bounds; hi counts     *)
(* halves of the u64 range, so a u64 holds hi \in 0..1 and an addition     *)
(* that reaches hi = 2 has left the 64-bit range.                          *)
(***************************************************************************)
EXTENDS Naturals, Sequences, FiniteSets, TLC

VARIABLES
    folder_stats,     \* main.rs:32 the HashMap<String, FolderStats> inside the Mutex
    lock,             \* holder of the Mutex: "none", "ui" or a thread identity
    poisoned,         \* the Mutex is poisoned (a holder panicked)
    osq,              \* watcher_rx: the std mpsc channel fed by the notify backend
    nDelivered,       \* number of items the notify backend has delivered so far
    pc,               \* per thread: position in watch_for_files / update_folder_stats
    cur,              \* per thread: the item last received (the path being processed)
    reg,              \* per thread: the value loaded by the `+=` in progress
    panicMsg,         \* per thread: which unwrap()/overflow check panicked, or "none"
    chan,             \* number of () signals queued in the tokio mpsc channel
    rx_closed,        \* the Receiver `rx` has been dropped
    upc,              \* position of main
    input,            \* what event::poll / event::read returned in this tick
    mainExit,         \* "running", or how main ended: "ok", "err", "panic"
    raw,              \* terminal is in raw mode
    alt,              \* terminal shows the alternate screen
    cursor,           \* cursor is shown
    rows,             \* `items`, the closure's list of rows; empty outside the closure
    overflow_checks,  \* build profile: TRUE = debug (overflow panics), FALSE = release (wraps)
    committed,        \* history: folder_stats as of the last completed update_folder_stats
    expected,         \* history: exact per-folder totals of the delivered processable events
    mutations,        \* history: number of completed update_folder_stats calls
    signals,          \* history: number of completed tx.send(()) calls
    stalled           \* history: an event was delivered while the sender waited on a full channel

vars == <<folder_stats, lock, poisoned, osq, nDelivered, pc, cur, reg, panicMsg, chan,
          rx_closed, upc, input, mainExit, raw, alt, cursor, rows, overflow_checks,
          committed, expected, mutations, signals, stalled>>

watcherVars == <<osq, nDelivered, pc, cur, reg, panicMsg, stalled>>
tableVars == <<folder_stats, lock, poisoned, committed, mutations>>
uiVars == <<upc, input, mainExit, raw, alt, cursor, rows, rx_closed>>

----------------------------------------------------------------------------
(* Bounds of the model *)

\* events the notify backend delivers in a run of Spec
MaxEvents == 2
\* items that may wait in watcher_rx at once (the std channel is unbounded)
MaxPending == 1
\* events delivered in a run of SpecBurst (more than the channel holds)
MaxBurst == 34
\* calls of update_folder_stats made in a run of SpecConc
MaxCalls == 3

(* Program constants *)

\* mpsc::channel(32)
ChannelCapacity == 32
\* size: u64 -- a u64 spans two halves of 2^63
U64Halves == 2

----------------------------------------------------------------------------
(* u64 arithmetic *)

U64(h, l) == [hi |-> h, lo |-> l]

Zero == U64(0, 0)

\* exact (unbounded) sum
ExactAdd(x, y) == U64(x.hi + y.hi, x.lo + y.lo)

\* the sum does not fit in 64 bits
Overflows(x, y) == x.hi + y.hi >= U64Halves

\* entry.size += file_size in a release build
WrappingAdd(x, y) == U64((x.hi + y.hi) % U64Halves, x.lo + y.lo)

U64Less(x, y) == x.hi < y.hi \/ (x.hi = y.hi /\ x.lo < y.lo)

----------------------------------------------------------------------------
(* Inputs *)

Folders == {"a", "b"}

\* 10 bytes, 20 bytes and 2^63 bytes
FileSizes == {U64(0, 10), U64(0, 20), U64(1, 0)}

\* a parent path that is not valid UTF-8: Path::to_str() returns None
NonUtf8 == "non_utf8"

\* An item of watcher_rx together with what the filesystem answers when the
\* watcher queries the event's first path: kind is the notify EventKind
\* ("NotifyError" for an Ok(Err(e)) item), hasPath is event.paths.get(0)
\* being Some, isFile the result of path.is_file(), parent the result of
\* path.parent()...to_str(), metaOk whether fs::metadata(path) is Ok and
\* size its file_size().  A path that is a file always has a parent, so no
\* item makes path.parent() return None after is_file() returned true.
Ev(k, p, f, d, mo, sz) ==
    [kind |-> k, hasPath |-> p, isFile |-> f, parent |-> d, metaOk |-> mo, size |-> sz]

NoEvent == Ev("none", FALSE, FALSE, "a", FALSE, U64(0, 0))

\* Create(CreateKind::Any) events
CreateEvents ==
    {Ev("CreateAny", TRUE, TRUE, d, TRUE, sz) : d \in Folders, sz \in FileSizes}
    \cup {Ev("CreateAny", TRUE, TRUE, d, FALSE, U64(0, 5)) : d \in Folders}
    \cup {Ev("CreateAny", TRUE, TRUE, NonUtf8, TRUE, U64(0, 5))}
    \cup {Ev("CreateAny", TRUE, FALSE, "a", TRUE, U64(0, 5))}
    \cup {Ev("CreateAny", FALSE, FALSE, "a", TRUE, U64(0, 5))}

\* event kinds that are not a creation
NonCreateKinds == {"ModifyData", "ModifyName", "Remove", "Access", "Other"}

\* Create(CreateKind::File) and Create(CreateKind::Other); the creation of a
\* folder is among CreateEvents as a path that is no file
OtherCreateKinds == {"CreateFile", "CreateOther"}

\* events of every other kind, each about an existing regular file, and the
\* Ok(Err(e)) item
OtherEvents ==
    {Ev(k, TRUE, TRUE, "a", TRUE, U64(0, 5)) :
        k \in NonCreateKinds \cup OtherCreateKinds \cup {"NotifyError"}}

Events == CreateEvents \cup OtherEvents

----------------------------------------------------------------------------
(* StatsTable *)

FolderStats(s, c) == [size |-> s, file_count |-> c]

EmptyTable == [f \in {} |-> FolderStats(Zero, 0)]

Put(t, f, v) == [g \in DOMAIN t \cup {f} |-> IF g = f THEN v ELSE t[g]]

\* the zeroed aggregate of an absent folder
Get(t, f) == IF f \in DOMAIN t THEN t[f] ELSE FolderStats(Zero, 0)

----------------------------------------------------------------------------
(* Threads *)

\* the task spawned at main.rs:45
Watcher == "watcher"

\* threads calling update_folder_stats directly, as a stress test does
Callers == {"t1", "t2"}

Threads == {Watcher} \cup Callers

\* where a thread continues when update_folder_stats returns
AfterUpdate(t) == IF t = Watcher THEN "send" ELSE "idle"

\* positions at which the watcher task exists and owns the notify watcher
AlivePcs == {"recv", "resolve", "lock", "entry", "count", "count_store", "size",
             "size_store", "send"}

\* a panic unwinds the thread: it never runs again
Panic(t, msg) ==
    /\ pc' = [pc EXCEPT ![t] = "panicked"]
    /\ panicMsg' = [panicMsg EXCEPT ![t] = msg]

----------------------------------------------------------------------------
(* EventWatcher: watch_for_files *)

\* the event is one the watcher processes to the end when nothing overflows
Processable(e) ==
    /\ e.kind = "CreateAny"
    /\ e.hasPath
    /\ e.isFile
    /\ e.parent \in Folders
    /\ e.metaOk

\* exact totals with one more processed creation under e.parent of e.size bytes
Account(x, e) ==
    IF Processable(e)
    THEN [x EXCEPT ![e.parent] = FolderStats(ExactAdd(@.size, e.size), @.file_count + 1)]
    ELSE x

\* the sender is waiting for a permit of the full channel
SenderBlocked == pc[Watcher] = "send" /\ chan = ChannelCapacity /\ ~rx_closed

\* a bounded hand-over that discards the item while the watcher waits on tx.send
Deliver_DropWhenBlocked(e, max) ==
    /\ pc[Watcher] \in AlivePcs
    /\ nDelivered < max
    /\ Len(osq) < MaxPending
    /\ osq' = IF SenderBlocked THEN osq ELSE Append(osq, e)
    /\ nDelivered' = nDelivered + 1
    /\ expected' = Account(expected, e)
    /\ stalled' = (stalled \/ SenderBlocked)
    /\ UNCHANGED <<tableVars, uiVars, pc, cur, reg, panicMsg, chan, overflow_checks, signals>>

\* The notify backend's thread sends one item into watcher_rx.
Deliver(e, max) ==
    /\ pc[Watcher] \in AlivePcs
    /\ nDelivered < max
    /\ Len(osq) < MaxPending
    /\ osq' = Append(osq, e)
    /\ nDelivered' = nDelivered + 1
    /\ expected' = Account(expected, e)
    /\ stalled' = (stalled \/ SenderBlocked)
    /\ UNCHANGED <<tableVars, uiVars, pc, cur, reg, panicMsg, chan, overflow_checks, signals>>

\* the kind filter left out
KindMatches_Any(e) == TRUE

\* notify::event::EventKind::Create(CreateKind::Any) == event.kind
KindMatches(e) == e.kind = "CreateAny"

\* event.paths.get(0) is Some(path)
HasFirstPath(e) == e.hasPath

\* the is_file() test left out
IsFile_Unchecked(e) == TRUE

\* path.is_file()
IsFile(e) == e.isFile

\* the send placed after the ifs: a signal for every item received
Recv_SignalEveryEvent ==
    /\ pc[Watcher] = "recv"
    /\ osq # <<>>
    /\ osq' = Tail(osq)
    /\ cur' = [cur EXCEPT ![Watcher] = Head(osq)]
    /\ LET e == Head(osq) IN
         IF e.kind # "NotifyError" /\ KindMatches(e) /\ HasFirstPath(e) /\ IsFile(e)
         THEN pc' = [pc EXCEPT ![Watcher] = "resolve"]
         ELSE pc' = [pc EXCEPT ![Watcher] = "send"]
    /\ UNCHANGED <<tableVars, uiVars, nDelivered, reg, panicMsg, chan, overflow_checks,
                   expected, signals, stalled>>

\* watcher_rx.recv() returns an item; the match and the three nested ifs.
Recv ==
    /\ pc[Watcher] = "recv"
    /\ osq # <<>>
    /\ osq' = Tail(osq)
    /\ cur' = [cur EXCEPT ![Watcher] = Head(osq)]
    /\ LET e == Head(osq) IN
         IF e.kind # "NotifyError" /\ KindMatches(e) /\ HasFirstPath(e) /\ IsFile(e)
         THEN pc' = [pc EXCEPT ![Watcher] = "resolve"]
         ELSE UNCHANGED pc
    /\ UNCHANGED <<tableVars, uiVars, nDelivered, reg, panicMsg, chan, overflow_checks,
                   expected, signals, stalled>>

\* tx.send(()).await.unwrap()
Send ==
    /\ pc[Watcher] = "send"
    /\ IF rx_closed
       THEN /\ Panic(Watcher, "send_closed")
            /\ UNCHANGED <<chan, signals>>
       ELSE /\ chan < ChannelCapacity
            /\ chan' = chan + 1
            /\ signals' = signals + 1
            /\ pc' = [pc EXCEPT ![Watcher] = "recv"]
            /\ UNCHANGED panicMsg
    /\ UNCHANGED <<tableVars, uiVars, osq, nDelivered, cur, reg, overflow_checks, expected,
                   stalled>>

\* Watcher::new(..).unwrap(); watcher.watch(..).unwrap(); both succeed
WatcherSetup ==
    /\ pc[Watcher] = "setup"
    /\ pc' = [pc EXCEPT ![Watcher] = "recv"]
    /\ UNCHANGED <<tableVars, uiVars, osq, nDelivered, cur, reg, panicMsg, chan,
                   overflow_checks, expected, signals, stalled>>

\* one of the two unwrap()s of the setup panics
WatcherSetupFail ==
    /\ pc[Watcher] = "setup"
    /\ Panic(Watcher, "setup")
    /\ UNCHANGED <<tableVars, uiVars, osq, nDelivered, cur, reg, chan, overflow_checks,
                   expected, signals, stalled>>

\* The runtime is shut down once main has ended: a task waiting at an await
\* point is dropped there.
TaskDropped ==
    /\ mainExit # "running"
    /\ pc[Watcher] = "send"
    /\ pc' = [pc EXCEPT ![Watcher] = "dropped"]
    /\ UNCHANGED <<tableVars, uiVars, osq, nDelivered, cur, reg, panicMsg, chan,
                   overflow_checks, expected, signals, stalled>>

----------------------------------------------------------------------------
(* update_folder_stats *)

\* no `+=` in progress
NoReg == [count |-> 0, size |-> Zero]

\* the guard taken first: the two queries run, and panic, with the lock held
Resolve_UnderLock(t) ==
    /\ pc[t] = "resolve"
    /\ IF cur[t].parent = NonUtf8 \/ ~cur[t].metaOk
       THEN /\ lock = "none"
            /\ Panic(t, IF cur[t].parent = NonUtf8 THEN "non_utf8" ELSE "metadata")
            /\ poisoned' = TRUE
       ELSE pc' = [pc EXCEPT ![t] = "lock"] /\ UNCHANGED <<panicMsg, poisoned>>
    /\ UNCHANGED <<folder_stats, lock, committed, mutations, uiVars, osq, nDelivered, cur,
                   reg, chan, overflow_checks, expected, signals, stalled>>

\* let folder = path.parent().unwrap().to_str().unwrap().to_string();
\* let file_size = fs::metadata(path).unwrap().file_size();
Resolve(t) ==
    /\ pc[t] = "resolve"
    /\ IF cur[t].parent = NonUtf8 THEN Panic(t, "non_utf8")
       ELSE IF ~cur[t].metaOk THEN Panic(t, "metadata")
       ELSE pc' = [pc EXCEPT ![t] = "lock"] /\ UNCHANGED panicMsg
    /\ UNCHANGED <<tableVars, uiVars, osq, nDelivered, cur, reg, chan, overflow_checks,
                   expected, signals, stalled>>

\* the table accessed without mutual exclusion
CanLock_Always == TRUE

\* Mutex::lock() returns once no other thread holds the mutex
CanLock == lock = "none"

\* let mut stats = folder_stats.lock().unwrap();
Lock(t) ==
    /\ pc[t] = "lock"
    /\ CanLock
    /\ IF poisoned
       THEN Panic(t, "poison") /\ UNCHANGED lock
       ELSE pc' = [pc EXCEPT ![t] = "entry"] /\ lock' = t /\ UNCHANGED panicMsg
    /\ UNCHANGED <<folder_stats, poisoned, committed, mutations, uiVars, osq, nDelivered,
                   cur, reg, chan, overflow_checks, expected, signals, stalled>>

\* stats.entry(folder.clone()).or_insert(FolderStats { size: 0, file_count: 0 })
OrInsert(t, f) == IF f \in DOMAIN t THEN t ELSE Put(t, f, FolderStats(Zero, 0))

Entry(t) ==
    /\ pc[t] = "entry"
    /\ folder_stats' = OrInsert(folder_stats, cur[t].parent)
    /\ pc' = [pc EXCEPT ![t] = "count"]
    /\ UNCHANGED <<lock, poisoned, committed, mutations, uiVars, osq, nDelivered, cur, reg,
                   panicMsg, chan, overflow_checks, expected, signals, stalled>>

\* entry.file_count += 1: the load
CountLoad(t) ==
    /\ pc[t] = "count"
    /\ reg' = [reg EXCEPT ![t].count = folder_stats[cur[t].parent].file_count]
    /\ pc' = [pc EXCEPT ![t] = "count_store"]
    /\ UNCHANGED <<tableVars, uiVars, osq, nDelivered, cur, panicMsg, chan,
                   overflow_checks, expected, signals, stalled>>

\* entry.file_count += 1: the store of the loaded count r plus one
AddCount(t, f, r) == [t EXCEPT ![f].file_count = r + 1]

CountStore(t) ==
    /\ pc[t] = "count_store"
    /\ folder_stats' = AddCount(folder_stats, cur[t].parent, reg[t].count)
    /\ pc' = [pc EXCEPT ![t] = "size"]
    /\ UNCHANGED <<lock, poisoned, committed, mutations, uiVars, osq, nDelivered, cur, reg,
                   panicMsg, chan, overflow_checks, expected, signals, stalled>>

\* entry.size += file_size: the load
SizeLoad(t) ==
    /\ pc[t] = "size"
    /\ reg' = [reg EXCEPT ![t].size = folder_stats[cur[t].parent].size]
    /\ pc' = [pc EXCEPT ![t] = "size_store"]
    /\ UNCHANGED <<tableVars, uiVars, osq, nDelivered, cur, panicMsg, chan,
                   overflow_checks, expected, signals, stalled>>

\* entry.size = file_size
AddSize_Overwrite(t, f, r, n) == [t EXCEPT ![f].size = n]

\* entry.size += file_size: the store of the loaded size r plus n, wrapped
AddSize(t, f, r, n) == [t EXCEPT ![f].size = WrappingAdd(r, n)]

\* the guard returned to the caller and kept across the send
SizeStore_KeepGuard(t) ==
    /\ pc[t] = "size_store"
    /\ reg' = [reg EXCEPT ![t] = NoReg]
    /\ folder_stats' = AddSize(folder_stats, cur[t].parent, reg[t].size, cur[t].size)
    /\ committed' = folder_stats'
    /\ mutations' = mutations + 1
    /\ pc' = [pc EXCEPT ![t] = AfterUpdate(t)]
    /\ UNCHANGED <<lock, poisoned, panicMsg, uiVars, osq, nDelivered, cur, chan,
                   overflow_checks, expected, signals, stalled>>

\* entry.size += file_size: the store; then the guard `stats` is dropped at the
\* end of the function.  With overflow checks an addition that overflows
\* panics while the guard is held, and the unwinding poisons the mutex as it
\* drops the guard.
SizeStore(t) ==
    /\ pc[t] = "size_store"
    /\ lock' = "none"
    /\ reg' = [reg EXCEPT ![t] = NoReg]
    /\ IF overflow_checks /\ Overflows(reg[t].size, cur[t].size)
       THEN /\ Panic(t, "overflow")
            /\ poisoned' = TRUE
            /\ UNCHANGED <<folder_stats, committed, mutations>>
       ELSE /\ folder_stats' = AddSize(folder_stats, cur[t].parent, reg[t].size, cur[t].size)
            /\ committed' = folder_stats'
            /\ mutations' = mutations + 1
            /\ pc' = [pc EXCEPT ![t] = AfterUpdate(t)]
            /\ UNCHANGED <<poisoned, panicMsg>>
    /\ UNCHANGED <<uiVars, osq, nDelivered, cur, chan, overflow_checks, expected,
                   signals, stalled>>

----------------------------------------------------------------------------
(* RenderLoop and TerminalSession: main *)

\* all orders in which a HashMap may iterate over the keys S
Perms(S) ==
    {p \in [1..Cardinality(S) -> S] : \A i, j \in 1..Cardinality(S) : p[i] = p[j] => i = j}

Row(t, f) == [folder |-> f, size |-> t[f].size, file_count |-> t[f].file_count]

\* the comparator with a and b swapped: a.1.size.cmp(&b.1.size)
Before_Ascending(a, b) == U64Less(a.size, b.size)

\* the comparator |a, b| b.1.size.cmp(&a.1.size) answers Less
Before(a, b) == U64Less(b.size, a.size)

\* first position of the sorted s whose row must come after x, or Len(s) + 1
RECURSIVE InsertAt(_, _, _)
InsertAt(x, s, i) ==
    IF i > Len(s) THEN i
    ELSE IF Before(x, s[i]) THEN i
    ELSE InsertAt(x, s, i + 1)

InsertSorted(x, s) ==
    LET i == InsertAt(x, s, 1) IN
    SubSeq(s, 1, i - 1) \o <<x>> \o SubSeq(s, i, Len(s))

\* .sorted_by(..): a stable sort of the rows in iteration order
RECURSIVE SortedBy(_)
SortedBy(s) ==
    IF s = <<>> THEN <<>>
    ELSE InsertSorted(s[Len(s)], SortedBy(SubSeq(s, 1, Len(s) - 1)))

\* main returns or unwinds: its locals, the Receiver among them, are dropped
Exit(how) ==
    /\ mainExit' = how
    /\ rx_closed' = TRUE

\* a step of main that leaves everything but main's position alone
Goto(to) ==
    /\ upc' = to
    /\ UNCHANGED <<input, mainExit, raw, alt, cursor, rows, rx_closed>>

NotMain == <<tableVars, watcherVars, chan, overflow_checks, expected, signals>>

\* path.canonicalize()?; println!
Canonicalize ==
    /\ mainExit = "running" /\ upc = "canon"
    /\ Goto("spawn")
    /\ UNCHANGED NotMain

\* tokio::spawn(async move { watch_for_files(..).await })
Spawn ==
    /\ mainExit = "running" /\ upc = "spawn"
    /\ Goto("raw")
    /\ pc' = [pc EXCEPT ![Watcher] = "setup"]
    /\ UNCHANGED <<tableVars, osq, nDelivered, cur, reg, panicMsg, stalled, chan,
                   overflow_checks, expected, signals>>

\* enable_raw_mode()?
EnableRaw ==
    /\ mainExit = "running" /\ upc = "raw"
    /\ raw' = TRUE
    /\ upc' = "alt"
    /\ UNCHANGED <<input, mainExit, alt, cursor, rows, rx_closed, NotMain>>

\* stdout.execute(EnterAlternateScreen)?
EnterAlternateScreen ==
    /\ mainExit = "running" /\ upc = "alt"
    /\ alt' = TRUE
    /\ upc' = "term"
    /\ UNCHANGED <<input, mainExit, raw, cursor, rows, rx_closed, NotMain>>

\* Terminal::new(backend)?
TerminalNew ==
    /\ mainExit = "running" /\ upc = "term"
    /\ Goto("poll")
    /\ UNCHANGED NotMain

\* what event::poll / event::read observe within the 100 ms: nothing, the key
\* 'q', another key, an event that is no key
Inputs == {"none", "q", "key", "resize"}

\* event::poll(Duration::from_millis(100))? and, when it is true, event::read()?
Poll(in) ==
    /\ mainExit = "running" /\ upc = "poll"
    /\ input' = in
    /\ upc' = "key"
    /\ UNCHANGED <<mainExit, raw, alt, cursor, rows, rx_closed, NotMain>>

\* the quit key not recognised
IsQuit_Never(in) == FALSE

\* the event is Event::Key(key) with key.code == KeyCode::Char('q')
IsQuit(in) == in = "q"

\* if .. { break; }; the event goes out of scope
KeyCheck ==
    /\ mainExit = "running" /\ upc = "key"
    /\ upc' = IF IsQuit(input) THEN "restore_raw" ELSE "draw"
    /\ input' = "none"
    /\ UNCHANGED <<mainExit, raw, alt, cursor, rows, rx_closed, NotMain>>

\* terminal.draw calls the closure: folder_stats.lock().unwrap()
DrawLock ==
    /\ mainExit = "running" /\ upc = "draw"
    /\ CanLock
    /\ IF poisoned
       THEN /\ Exit("panic")
            /\ UNCHANGED <<lock, upc>>
       ELSE /\ lock' = "ui"
            /\ upc' = "items"
            /\ UNCHANGED <<mainExit, rx_closed>>
    /\ UNCHANGED <<folder_stats, poisoned, committed, mutations, input, raw, alt, cursor, rows,
                   watcherVars, chan, overflow_checks, expected, signals>>

\* folder_stats.iter().sorted_by(..).map(..).collect()
Items(t, it) == SortedBy([i \in DOMAIN it |-> Row(t, it[i])])

DrawItems ==
    /\ mainExit = "running" /\ upc = "items"
    /\ \E it \in Perms(DOMAIN folder_stats) : rows' = Items(folder_stats, it)
    /\ upc' = "render"
    /\ UNCHANGED <<input, mainExit, raw, alt, cursor, rx_closed, NotMain>>

\* List::new(items).., f.render_widget(list, chunks[0]); the closure returns:
\* the list is dropped and so is the guard
DrawRender ==
    /\ mainExit = "running" /\ upc = "render"
    /\ lock' = "none"
    /\ rows' = <<>>
    /\ upc' = "flush"
    /\ UNCHANGED <<input, mainExit, raw, alt, cursor, rx_closed>>
    /\ UNCHANGED <<folder_stats, poisoned, committed, mutations, watcherVars, chan,
                   overflow_checks, expected, signals>>

\* the rest of terminal.draw: the buffer is written out, the cursor hidden
DrawFlush ==
    /\ mainExit = "running" /\ upc = "flush"
    /\ cursor' = FALSE
    /\ upc' = "drain"
    /\ UNCHANGED <<input, mainExit, raw, alt, rows, rx_closed, NotMain>>

\* if let Ok(_) = rx.try_recv() { terminal.autoresize().unwrap(); }
Drain ==
    /\ mainExit = "running" /\ upc = "drain"
    /\ chan' = IF chan > 0 THEN chan - 1 ELSE chan
    /\ Goto("sleep")
    /\ UNCHANGED <<tableVars, watcherVars, overflow_checks, expected, signals>>

\* sleep(Duration::from_millis(100)).await
Sleep ==
    /\ mainExit = "running" /\ upc = "sleep"
    /\ Goto("poll")
    /\ UNCHANGED NotMain

\* disable_raw_mode()?
DisableRaw ==
    /\ mainExit = "running" /\ upc = "restore_raw"
    /\ raw' = FALSE
    /\ upc' = "restore_alt"
    /\ UNCHANGED <<input, mainExit, alt, cursor, rows, rx_closed, NotMain>>

\* terminal.backend_mut().execute(LeaveAlternateScreen)?
LeaveAlternateScreen ==
    /\ mainExit = "running" /\ upc = "restore_alt"
    /\ alt' = FALSE
    /\ upc' = "restore_cursor"
    /\ UNCHANGED <<input, mainExit, raw, cursor, rows, rx_closed, NotMain>>

\* terminal.show_cursor()?; Ok(())
ShowCursor ==
    /\ mainExit = "running" /\ upc = "restore_cursor"
    /\ cursor' = TRUE
    /\ upc' = "done"
    /\ Exit("ok")
    /\ UNCHANGED <<input, raw, alt, rows, NotMain>>

(* The failures of the terminal and of the filesystem that main propagates *)

\* positions of main whose call ends in `?`: main returns the error at once
FalliblePcs == {"canon", "raw", "alt", "term", "poll", "draw", "flush",
                "restore_raw", "restore_alt", "restore_cursor"}

\* canonicalize, enable_raw_mode, execute, Terminal::new, event::poll/read,
\* terminal.draw, disable_raw_mode or show_cursor returns Err
MainErr ==
    /\ mainExit = "running" /\ upc \in FalliblePcs
    /\ Exit("err")
    /\ UNCHANGED <<upc, input, raw, alt, cursor, rows, NotMain>>

\* try_recv takes a signal and terminal.autoresize().unwrap() panics
ResizePanic ==
    /\ mainExit = "running" /\ upc = "drain"
    /\ chan > 0
    /\ chan' = chan - 1
    /\ Exit("panic")
    /\ UNCHANGED <<upc, input, raw, alt, cursor, rows, tableVars, watcherVars, overflow_checks,
                   expected, signals>>

----------------------------------------------------------------------------
(* The program *)

Init ==
    /\ folder_stats = EmptyTable
    /\ lock = "none"
    /\ poisoned = FALSE
    /\ osq = <<>>
    /\ nDelivered = 0
    /\ pc = [t \in Threads |-> "unspawned"]
    /\ cur = [t \in Threads |-> NoEvent]
    /\ reg = [t \in Threads |-> NoReg]
    /\ panicMsg = [t \in Threads |-> "none"]
    /\ chan = 0
    /\ rx_closed = FALSE
    /\ upc = "canon"
    /\ input = "none"
    /\ mainExit = "running"
    /\ raw = FALSE
    /\ alt = FALSE
    /\ cursor = TRUE
    /\ rows = <<>>
    /\ overflow_checks \in BOOLEAN
    /\ committed = EmptyTable
    /\ expected = [f \in Folders |-> FolderStats(Zero, 0)]
    /\ mutations = 0
    /\ signals = 0
    /\ stalled = FALSE

WatcherNext ==
    \/ WatcherSetup
    \/ WatcherSetupFail
    \/ Recv
    \/ Resolve(Watcher)
    \/ Lock(Watcher)
    \/ Entry(Watcher)
    \/ CountLoad(Watcher)
    \/ CountStore(Watcher)
    \/ SizeLoad(Watcher)
    \/ SizeStore(Watcher)
    \/ Send
    \/ TaskDropped

MainNext ==
    \/ Canonicalize
    \/ Spawn
    \/ EnableRaw
    \/ EnterAlternateScreen
    \/ TerminalNew
    \/ \E in \in Inputs : Poll(in)
    \/ KeyCheck
    \/ DrawLock
    \/ DrawItems
    \/ DrawRender
    \/ DrawFlush
    \/ Drain
    \/ Sleep
    \/ DisableRaw
    \/ LeaveAlternateScreen
    \/ ShowCursor
    \/ MainErr
    \/ ResizePanic

Next ==
    \/ \E e \in Events : Deliver(e, MaxEvents)
    \/ WatcherNext
    \/ MainNext

Spec == Init /\ [][Next]_vars

(* A burst of creations that outnumbers the channel's capacity *)

BurstEvents == {Ev("CreateAny", TRUE, TRUE, "a", TRUE, U64(0, 5))}

BurstNext ==
    \/ \E e \in BurstEvents : Deliver(e, MaxBurst)
    \/ WatcherSetup
    \/ Recv
    \/ Resolve(Watcher)
    \/ Lock(Watcher)
    \/ Entry(Watcher)
    \/ CountLoad(Watcher)
    \/ CountStore(Watcher)
    \/ SizeLoad(Watcher)
    \/ SizeStore(Watcher)
    \/ Send
    \/ TaskDropped
    \/ Canonicalize
    \/ Spawn
    \/ EnableRaw
    \/ EnterAlternateScreen
    \/ TerminalNew
    \/ \E in \in Inputs : Poll(in)
    \/ KeyCheck
    \/ DrawLock
    \/ DrawItems
    \/ DrawRender
    \/ DrawFlush
    \/ Drain
    \/ Sleep
    \/ DisableRaw
    \/ LeaveAlternateScreen
    \/ ShowCursor

SpecBurst == Init /\ [][BurstNext]_vars

(* update_folder_stats called from several threads at once *)

\* the paths the callers pass: existing regular files
CallPaths == {Ev("CreateAny", TRUE, TRUE, d, TRUE, sz) : d \in Folders, sz \in FileSizes}

\* a caller invokes update_folder_stats(path, &folder_stats)
Call(t, e) ==
    /\ pc[t] = "idle"
    /\ nDelivered < MaxCalls
    /\ nDelivered' = nDelivered + 1
    /\ cur' = [cur EXCEPT ![t] = e]
    /\ pc' = [pc EXCEPT ![t] = "resolve"]
    /\ expected' = Account(expected, e)
    /\ UNCHANGED <<tableVars, uiVars, osq, reg, panicMsg, stalled, chan, overflow_checks,
                   signals>>

InitConc ==
    /\ folder_stats = EmptyTable
    /\ lock = "none"
    /\ poisoned = FALSE
    /\ osq = <<>>
    /\ nDelivered = 0
    /\ pc = [t \in Threads |-> IF t \in Callers THEN "idle" ELSE "unspawned"]
    /\ cur = [t \in Threads |-> NoEvent]
    /\ reg = [t \in Threads |-> NoReg]
    /\ panicMsg = [t \in Threads |-> "none"]
    /\ chan = 0
    /\ rx_closed = FALSE
    /\ upc = "canon"
    /\ input = "none"
    /\ mainExit = "running"
    /\ raw = FALSE
    /\ alt = FALSE
    /\ cursor = TRUE
    /\ rows = <<>>
    /\ overflow_checks \in BOOLEAN
    /\ committed = EmptyTable
    /\ expected = [f \in Folders |-> FolderStats(Zero, 0)]
    /\ mutations = 0
    /\ signals = 0
    /\ stalled = FALSE

ConcNext ==
    \E t \in Callers :
        \/ \E e \in CallPaths : Call(t, e)
        \/ Resolve(t)
        \/ Lock(t)
        \/ Entry(t)
        \/ CountLoad(t)
        \/ CountStore(t)
        \/ SizeLoad(t)
        \/ SizeStore(t)

SpecConc == InitConc /\ [][ConcNext]_vars

(* The render loop staying in its loop, both tasks scheduled fairly *)

\* Create(Any) events for a regular file: one whose queries all succeed, one
\* whose metadata query fails, one whose parent path is not valid UTF-8
LiveEvents ==
    {Ev("CreateAny", TRUE, TRUE, "a", TRUE, U64(0, 5)),
     Ev("CreateAny", TRUE, TRUE, "a", FALSE, U64(0, 5)),
     Ev("CreateAny", TRUE, TRUE, NonUtf8, TRUE, U64(0, 5))}

\* the steps of main while no terminal call fails and 'q' is not pressed
LiveMain ==
    \/ Canonicalize
    \/ Spawn
    \/ EnableRaw
    \/ EnterAlternateScreen
    \/ TerminalNew
    \/ \E in \in Inputs \ {"q"} : Poll(in)
    \/ KeyCheck
    \/ DrawLock
    \/ DrawItems
    \/ DrawRender
    \/ DrawFlush
    \/ Drain
    \/ Sleep

\* the steps of the watcher task other than taking the lock
LiveWatcher ==
    \/ WatcherSetup
    \/ Recv
    \/ Resolve(Watcher)
    \/ Entry(Watcher)
    \/ CountLoad(Watcher)
    \/ CountStore(Watcher)
    \/ SizeLoad(Watcher)
    \/ SizeStore(Watcher)
    \/ Send

LiveNext ==
    \/ \E e \in LiveEvents : Deliver(e, MaxBurst)
    \/ LiveMain
    \/ LiveWatcher
    \/ Lock(Watcher)

\* Both tasks run on their own threads and each takes its next step when it
\* can; a thread waiting in Mutex::lock() gets the mutex, which the render
\* loop leaves free for the 200 ms of its poll and sleep in every tick.  The
\* notify backend delivers when it likes.
SpecLive ==
    /\ Init
    /\ [][LiveNext]_vars
    /\ WF_vars(LiveMain)
    /\ WF_vars(LiveWatcher)
    /\ SF_vars(Lock(Watcher))

----------------------------------------------------------------------------
(* Properties *)

\* the watcher has processed every delivered item and waits for the next
Quiescent == pc[Watcher] = "recv" /\ osq = <<>>

\* x reduced to the 64 bits of a u64
Wrapped(x) == U64(x.hi % U64Halves, x.lo)

\* the exact total fits in a u64
InRange(x) == x.hi < U64Halves

\* C1, for sums of any size: once the watcher has processed all delivered events, every
\* folder's file_count is the number of processed creations under it and its
\* size is the exact sum of their sizes, whatever the order of the events.
C1_AggregationExact ==
    Quiescent => \A f \in Folders : Get(folder_stats, f) = expected[f]

\* C1, for sums that fit the u64 field: once the watcher has processed all
\* delivered events, every folder's file_count is the number of processed
\* creations under it, its size is the exact sum of their sizes whenever that
\* sum is below 2^64, and a folder is in the table iff a creation under it was
\* processed; the table depends on the events only, not on their order.
C1_AggregationExactInRange ==
    Quiescent =>
        \A f \in Folders :
            /\ Get(folder_stats, f).file_count = expected[f].file_count
            /\ InRange(expected[f].size) => Get(folder_stats, f).size = expected[f].size
            /\ f \in DOMAIN folder_stats <=> expected[f].file_count > 0

\* two creations of 10 and 20 bytes under the same folder have been summed
C1_Witness ==
    /\ Quiescent
    /\ mutations = 2
    /\ "a" \in DOMAIN folder_stats
    /\ folder_stats["a"] = FolderStats(U64(0, 30), 2)

\* number of processable creations under f waiting in q
RECURSIVE QueuedCount(_, _)
QueuedCount(q, f) ==
    IF q = <<>> THEN 0
    ELSE (IF Processable(Head(q)) /\ Head(q).parent = f THEN 1 ELSE 0)
         + QueuedCount(Tail(q), f)

\* their bytes
RECURSIVE QueuedSize(_, _)
QueuedSize(q, f) ==
    IF q = <<>> THEN Zero
    ELSE ExactAdd(IF Processable(Head(q)) /\ Head(q).parent = f THEN Head(q).size ELSE Zero,
                  QueuedSize(Tail(q), f))

\* the creation the watcher has received and not yet counted / not yet summed
InFlightCount(f) ==
    IF pc[Watcher] \in {"resolve", "lock", "entry", "count", "count_store"}
       /\ Processable(cur[Watcher]) /\ cur[Watcher].parent = f
    THEN 1 ELSE 0

InFlightSize(f) ==
    IF pc[Watcher] \in {"resolve", "lock", "entry", "count", "count_store", "size",
                        "size_store"}
       /\ Processable(cur[Watcher]) /\ cur[Watcher].parent = f
    THEN cur[Watcher].size ELSE Zero

\* every delivered creation is in the table, in flight or still queued: none is
\* lost and none is applied twice
NothingLost ==
    pc[Watcher] \in AlivePcs =>
        \A f \in Folders :
            /\ Get(folder_stats, f).file_count + InFlightCount(f) + QueuedCount(osq, f)
                  = expected[f].file_count
            /\ Wrapped(ExactAdd(Get(folder_stats, f).size,
                                ExactAdd(InFlightSize(f), QueuedSize(osq, f))))
                  = Wrapped(expected[f].size)

\* the mutation of the event being processed is complete when the watcher is at
\* the send
AppliedBeforeSend ==
    pc[Watcher] = "send" =>
        /\ mutations = signals + 1
        /\ folder_stats = committed
        /\ lock # Watcher

\* while the sender waits on the full channel the table is left alone and the
\* queue of events only grows at its tail
OnlyDelayed ==
    SenderBlocked =>
        /\ folder_stats' = folder_stats
        /\ Len(osq') >= Len(osq)
        /\ SubSeq(osq', 1, Len(osq)) = osq

\* C2: a full channel (32 pending signals) loses and corrupts no mutation:
\* the mutation of the event being processed is applied before the watcher
\* waits on the send, every creation delivered meanwhile stays queued and is
\* applied exactly once afterwards, only the signal is delayed.
C2_FullChannelLosesNothing ==
    /\ [](AppliedBeforeSend /\ NothingLost)
    /\ [][OnlyDelayed]_vars

\* an event arrived while the sender waited on the full channel, and by now
\* every delivered creation, more than the channel holds, is in the table
C2_Witness ==
    /\ stalled
    /\ Quiescent
    /\ "a" \in DOMAIN folder_stats
    /\ folder_stats["a"].file_count = expected["a"].file_count
    /\ folder_stats["a"].file_count > ChannelCapacity

Restored == ~raw /\ ~alt /\ cursor

\* C3: whenever main has ended, by whatever path, the terminal is restored:
\* raw mode off, alternate screen left, cursor shown.
C3_RestoredOnEveryExit == mainExit # "running" => Restored

\* C4: no transient per-event failure (the size query fails, the path has no
\* parent) stops the watcher.
C4_WatcherSurvivesEventFailure ==
    panicMsg[Watcher] \notin {"metadata", "no_parent"}

\* main is past the loop's break
QuitPcs == {"restore_raw", "restore_alt", "restore_cursor", "done"}

\* a tick whose poll observed 'q' leaves the loop at the key check: the next
\* position is the restore, not the draw, the drain or the sleep
QuitLeavesLoop ==
    (upc = "key" /\ input = "q" /\ upc' # upc) => upc' = "restore_raw"

\* past the break main only runs the three restore calls, in their order
RestoreInOrder ==
    /\ upc \in QuitPcs /\ upc' # upc =>
          \/ upc = "restore_raw" /\ upc' = "restore_alt" /\ ~raw'
          \/ upc = "restore_alt" /\ upc' = "restore_cursor" /\ ~alt'
          \/ upc = "restore_cursor" /\ upc' = "done" /\ cursor'
    /\ upc \in QuitPcs => upc' \in QuitPcs /\ lock' # "ui" /\ chan' >= chan

C6_NoTornRead ==
    (mainExit = "running" /\ upc \in {"items", "render"}) =>
        /\ lock = "ui"
        /\ folder_stats = committed
        /\ \A f \in DOMAIN folder_stats : folder_stats[f].file_count >= 1
        /\ upc = "render" =>
              \A i \in DOMAIN rows :
                  /\ rows[i].folder \in DOMAIN committed
                  /\ rows[i] = Row(committed, rows[i].folder)

\* the render loop has read a non-empty table while the watcher waits for
\* the lock with the next update
C6_Witness ==
    /\ upc = "render"
    /\ rows # <<>>
    /\ pc[Watcher] = "lock"

\* C7: when no call of update_folder_stats is in progress, the table holds,
\* for every folder, the number of calls made for it and the u64 sum of their
\* sizes, whatever the interleaving of the callers.
C7_NoLostUpdate ==
    (\A t \in Callers : pc[t] = "idle") =>
        \A f \in Folders :
            /\ Get(folder_stats, f).file_count = expected[f].file_count
            /\ Get(folder_stats, f).size = Wrapped(expected[f].size)

\* after a first call has returned, two calls for the same folder overlap:
\* one caller has stored the new count and holds the lock, the other waits
C7_Witness ==
    /\ mutations >= 1
    /\ pc["t1"] = "size"
    /\ pc["t2"] = "lock"
    /\ cur["t1"].parent = cur["t2"].parent

\* the watcher takes the head of the queue
Receives ==
    /\ pc[Watcher] = "recv"
    /\ osq # <<>>
    /\ osq' = Tail(osq)

IsNonCreate(e) == e.kind \in NonCreateKinds

\* C8: processing an event whose kind is not a creation leaves the table as it
\* was and sends no signal: the watcher is back at the receive at once.
C8_NonCreateIgnored ==
    [][(Receives /\ IsNonCreate(Head(osq))) =>
          /\ folder_stats' = folder_stats
          /\ chan' = chan /\ signals' = signals
          /\ pc'[Watcher] = "recv"]_vars

\* a rename of an existing regular file has been received and dropped
C8_Witness ==
    /\ pc[Watcher] = "recv"
    /\ cur[Watcher].kind = "ModifyName"
    /\ cur[Watcher].isFile

IsCreateOfNoFile(e) == e.kind = "CreateAny" /\ (~e.hasPath \/ ~e.isFile)

\* C9: processing a creation event with no path, or whose path is not a
\* regular file, leaves the table as it was.
C9_NotAFileIgnored ==
    [][(Receives /\ IsCreateOfNoFile(Head(osq))) =>
          /\ folder_stats' = folder_stats
          /\ pc'[Watcher] = "recv"]_vars

\* a creation whose path is not a regular file has been received and dropped
C9_Witness ==
    /\ pc[Watcher] = "recv"
    /\ cur[Watcher].kind = "CreateAny"
    /\ cur[Watcher].hasPath
    /\ ~cur[Watcher].isFile

\* C10: the rows of a draw are exactly the entries of the table as it is read,
\* in an order in which size never increases from a row to the next.
C10_RowsSortedBySize ==
    (mainExit = "running" /\ upc = "render") =>
        /\ Len(rows) = Cardinality(DOMAIN folder_stats)
        /\ {rows[i] : i \in DOMAIN rows} = {Row(folder_stats, f) : f \in DOMAIN folder_stats}
        /\ \A i \in 1..(Len(rows) - 1) : ~U64Less(rows[i].size, rows[i + 1].size)

\* two rows of different sizes, the larger first
C10_Witness ==
    /\ upc = "render"
    /\ Len(rows) = 2
    /\ U64Less(rows[2].size, rows[1].size)

\* positions of main inside the render loop
LoopPcs == {"poll", "key", "draw", "items", "render", "flush", "drain", "sleep"}

\* C11: once the watcher's setup has failed (Watcher::new or watcher.watch
\* returned Err), main starts no further tick of the render loop and does not
\* return Ok: the failure ends the program with an error.
C11_SetupFailureAbortsStartup ==
    [][panicMsg[Watcher] = "setup" =>
          /\ (upc' = "poll" => upc = "poll")
          /\ mainExit' # "ok"]_vars

\* C12: while the list is built and painted the render loop does not hold the
\* lock of the table: it has copied the table and released the lock before.
C12_LockFreeWhileRendering ==
    (mainExit = "running" /\ upc = "render") => lock # "ui"

\* C13: the drain step of a tick takes every signal pending in the channel:
\* the channel is empty when the step is over.
C13_DrainEmptiesChannel ==
    [][(upc = "drain" /\ upc' = "sleep") => chan' = 0]_vars

\* C14: a send that fails because the receiver is gone does not end the
\* watcher.
C14_DroppedReceiverTolerated == panicMsg[Watcher] # "send_closed"

\* C16: in every step, every folder of the table stays in the table and
\* neither its size nor its file_count decreases.
C16_FolderStatsMonotone ==
    [][\A f \in DOMAIN folder_stats :
          /\ f \in DOMAIN folder_stats'
          /\ ~U64Less(folder_stats'[f].size, folder_stats[f].size)
          /\ folder_stats'[f].file_count >= folder_stats[f].file_count]_vars

\* a creation event, of whatever sub-kind, whose first path is a regular file
IsFileCreation(e) ==
    /\ e.kind \in {"CreateAny"} \cup OtherCreateKinds
    /\ e.hasPath
    /\ e.isFile

\* C17: every creation event, whatever its sub-kind, whose first path is an
\* existing regular file passes the filters and enters update_folder_stats.
C17_EveryCreateKindActedUpon ==
    [][(Receives /\ IsFileCreation(Head(osq))) => pc'[Watcher] = "resolve"]_vars

\* C15: the mutation of an event is complete, and the lock released by the
\* watcher, before the event's signal is sent, and one signal is sent per
\* mutation: signals <= mutations <= signals + 1 in every state, a signal is
\* sent only by the watcher at its send with exactly one mutation not yet
\* signalled, and a mutation begins only when every earlier one is signalled.
C15_MutationBeforeSignal ==
    /\ [](signals <= mutations /\ mutations <= signals + 1)
    /\ [][signals' # signals =>
             /\ signals' = signals + 1
             /\ chan' = chan + 1
             /\ pc[Watcher] = "send"
             /\ Processable(cur[Watcher])
             /\ mutations = signals + 1
             /\ folder_stats = committed
             /\ lock # Watcher]_vars
    /\ [][mutations' # mutations =>
             /\ mutations' = mutations + 1
             /\ mutations = signals]_vars

\* the second mutation is applied and its signal not yet sent, the first
\* signal is in the channel
C15_Witness ==
    /\ pc[Watcher] = "send"
    /\ mutations = 2
    /\ signals = 1
    /\ chan = 1

\* positions of the watcher between taking and releasing the lock
CriticalPcs == {"entry", "count", "count_store", "size", "size_store"}

\* the next step of the render loop's tick
TickStep ==
    \/ \E in \in Inputs : Poll(in)
    \/ KeyCheck
    \/ DrawLock
    \/ DrawItems
    \/ DrawRender
    \/ DrawFlush
    \/ Drain
    \/ Sleep

\* the next step of the watcher inside update_folder_stats' critical section
CriticalStep ==
    \/ Entry(Watcher)
    \/ CountLoad(Watcher)
    \/ CountStore(Watcher)
    \/ SizeLoad(Watcher)
    \/ SizeStore(Watcher)

\* C19: the watcher holds the lock only inside update_folder_stats, never at
\* the channel send or the event receive; the render loop holds it only inside
\* the draw closure, never at its poll, drain or sleep; its drain never waits.
\* Hence, whenever the render loop is running inside a tick, its next step can
\* be taken at once, or it waits for the lock held by a watcher whose own next
\* step can be taken and which releases the lock without waiting for anything.
C19_NoDeadlock ==
    /\ lock = Watcher <=> pc[Watcher] \in CriticalPcs
    /\ lock = "ui" <=> (mainExit = "running" /\ upc \in {"items", "render"})
    /\ (mainExit = "running" /\ upc \in LoopPcs) =>
          \/ ENABLED TickStep
          \/ upc = "draw" /\ lock = Watcher /\ ENABLED CriticalStep

\* the render loop waits for the lock at the draw while the watcher is inside
\* the critical section, with a signal pending in the channel
C19_Witness ==
    /\ mainExit = "running"
    /\ upc = "draw"
    /\ lock = Watcher
    /\ pc[Watcher] = "size"
    /\ chan > 0

\* the unwrap()s that panic on a per-event failure in update_folder_stats
PerEventFailures == {"non_utf8", "metadata"}

\* update_folder_stats panics at main.rs:161 or main.rs:163
FailsAtResolve == pc[Watcher] = "resolve" /\ pc'[Watcher] = "panicked"

\* C20: a per-event failure in update_folder_stats happens before the lock is
\* taken: the failing step changes neither the table nor the lock, which the
\* watcher does not hold and which is not poisoned, and sends no signal; ever
\* after, the table is as the last completed update left it, every mutation
\* has had its signal and no other, and the lock is free or held by the draw,
\* never poisoned, so every later draw reads the table: main never panics at
\* the lock of the draw.
C20_EventFailureBeforeLock ==
    /\ [][FailsAtResolve =>
             /\ panicMsg'[Watcher] \in PerEventFailures
             /\ folder_stats' = folder_stats
             /\ lock' = lock /\ lock # Watcher
             /\ poisoned' = poisoned /\ ~poisoned
             /\ chan' = chan /\ signals' = signals]_vars
    /\ [](panicMsg[Watcher] \in PerEventFailures =>
             /\ folder_stats = committed
             /\ signals = mutations
             /\ lock \in {"none", "ui"}
             /\ ~poisoned
             /\ mainExit = "panic" => upc = "drain")

\* after the size query of an event has failed, the render loop has read the
\* table, which holds the earlier creation
C20_Witness ==
    /\ panicMsg[Watcher] = "metadata"
    /\ mutations = 1
    /\ upc = "render"
    /\ rows # <<>>

\* the sender waiting on the full channel gets its permit
Unblocked == SenderBlocked ~> ~SenderBlocked

\* C18: while the render loop keeps running and both tasks are scheduled
\* fairly, a watcher waiting to send on the full channel is eventually
\* unblocked, and every creation event for an existing regular file that the
\* backend has delivered is eventually received and applied to the table: the
\* watcher gets to the send that follows its mutation.
C18_EveryCreationEventuallyApplied ==
    /\ Unblocked
    /\ (pc[Watcher] = "recv" /\ osq # <<>> /\ IsFileCreation(Head(osq)))
          ~> (pc[Watcher] = "send")

====
